---------------------------- MODULE Spec2Model ----------------------------
(***************************************************************************)
(* Model of src/synth_orig.py: the overlap-add synthesizer (synthesize,    *)
(* deemphasis), the transformation list loop ("plan builder", lines        *)
(* 127-164) and the synthesis loop ("streaming conversion loop", lines     *)
(* 176-250).                                                               *)
(*                                                                         *)
(* Strings are sequences of tokens ("d1", "/", "s1", "_", "a", ".pt") and  *)
(* string concatenation is \o.  Sample values are exact rationals <<n,d>>  *)
(* in lowest terms with d > 0 (float32 rounding is not modelled).          *)
(***************************************************************************)
EXTENDS Integers, Sequences, FiniteSets, TLC

VARIABLES
    \* ---- inputs of a run (fixed after Init) ----
    filenames,              \* dataset.filenames: distinct relative paths
    nframes,                \* number of frames the dataset emits per file
    sbatch,                 \* args.sbatch
    maxfiles,               \* args.maxfiles
    force_target_speaker,   \* args.force_target_speaker ("None" when unset)
    convert,                \* args.convert
    \* ---- state of the script ----
    pc,                     \* position of the script
    err,                    \* the exception that ended the run, "" if none
    target_speaker,         \* line 130
    fnlist,                 \* line 132
    itrafos,                \* line 133
    isource, itarget,       \* line 136
    nfiles,                 \* lines 134 and 179
    k,                      \* index of the batch the running loop is at
    n,                      \* index of the record inside the batch
    audio,                  \* line 178: the accumulator
    t_audio,                \* line 182, in samples (the /16000 is left out)
    flist,                  \* lines of the transformation list file
    flist_writes,           \* how many times the list file was written
    calls,                  \* invocations of synthesize, in order
    written,                \* paths of the audio files written, in order
    interrupted,            \* a KeyboardInterrupt was caught at line 238
    \* ---- state of a stand-alone call of synthesize ----
    spc, frames, stride, deemph, normalize,
    y_stream,               \* y after line 17, before de-emphasis and normalization
    y,                      \* the waveform synthesize returns
    wav,                    \* the 16 bit samples written at line 31
    serr,                   \* the exception synthesize raised, "" if none
    \* ---- state of a stand-alone call of deemphasis ----
    dpc, dalpha,
    dx0,                    \* the array passed as x
    dx,                     \* that array after the call
    dy,                     \* the array returned
    derr                    \* the exception deemphasis raised, "" if none

vars == <<filenames, nframes, sbatch, maxfiles, force_target_speaker, convert,
          pc, err, target_speaker, fnlist, itrafos, isource, itarget, nfiles,
          k, n, audio, t_audio, flist, flist_writes, calls, written,
          interrupted, spc, frames, stride, deemph, normalize, y_stream, y, wav,
          serr, dpc, dalpha, dx0, dx, dy, derr>>

inputVars == <<filenames, nframes, sbatch, maxfiles, force_target_speaker, convert>>
synthVars == <<spc, frames, stride, deemph, normalize, y_stream, y, wav, serr,
               dpc, dalpha, dx0, dx, dy, derr>>
progVars  == <<pc, err, target_speaker, fnlist, itrafos, isource, itarget, nfiles,
               k, n, audio, t_audio, flist, flist_writes, calls, written,
               interrupted>>

----------------------------------------------------------------------------
(* Bounds *)

MaxFrames == 2          \* frames per file: 1..MaxFrames
MaxBatch == 3           \* args.sbatch: 1..MaxBatch
MaxMaxfiles == 3        \* args.maxfiles: 0..MaxMaxfiles
ArgStride == 1          \* args.stride of the run
ArgLChunk == 2          \* args.lchunk of the run
MaxN == 2               \* frames of a stand-alone synthesize call: 1..MaxN
MaxL == 2               \* frame length: 1..MaxL
MaxStride == 2          \* stride of a stand-alone call: 0..MaxStride
MaxX == 3               \* length of the array of a stand-alone deemphasis call

Min(a, b) == IF a < b THEN a ELSE b
SetMax(S) == CHOOSE m \in S : \A x \in S : x <= m

----------------------------------------------------------------------------
(* The dataset and the loader *)

None == "None"

\* dataset.speakers (line 124): speaker name -> id
speakers == [s \in {"s1", "s2"} |-> IF s = "s1" THEN 0 ELSE 1]
\* list(dataset.speakers.keys()) (line 125)
lspeakers == <<"s1", "s2">>

\* The files the dataset may hold: distinct relative paths; two of them have
\* the same base name in different directories.
PathUniverse == << <<"d1", "/", "s1", "_", "a", ".pt">>,
                   <<"d1", "/", "s2", "_", "b", ".pt">>,
                   <<"d2", "/", "s1", "_", "a", ".pt">> >>

RECURSIVE Pick(_, _)
Pick(S, i) == IF i > Len(PathUniverse) THEN <<>>
              ELSE (IF i \in S THEN <<PathUniverse[i]>> ELSE <<>>) \o Pick(S, i + 1)

\* os.path.split(fn)[1]: the part after the last separator
BaseName(fn) ==
    LET seps == {p \in 1..Len(fn) : fn[p] = "/"}
    IN  IF seps = {} THEN fn ELSE SubSeq(fn, SetMax(seps) + 1, Len(fn))

\* dataset.filename_split(fn)[0]: the speaker a file name starts with
filename_split(fn) == BaseName(fn)[1]

\* The records (i, j, last) of file i, in emission order (i counts from 1 here)
FileRecords(i) ==
    [j \in 1..nframes[i] |-> [i |-> i, j |-> j - 1,
                              last |-> IF j = nframes[i] THEN 1 ELSE 0]]

RECURSIVE Flat(_)
Flat(i) == IF i > Len(filenames) THEN <<>> ELSE FileRecords(i) \o Flat(i + 1)

\* The record stream of the dataset: every file's frames, contiguous
Stream == Flat(1)

\* DataLoader(dataset, batch_size=sbatch, shuffle=False): batches 0, 1, ...
NumBatches == (Len(Stream) + sbatch - 1) \div sbatch
Batch(b) == SubSeq(Stream, b * sbatch + 1, Min((b + 1) * sbatch, Len(Stream)))

----------------------------------------------------------------------------
(* Transformation list loop, lines 127-164 *)

\* line 144: does this record add a triple?
PlanTakesFile_NoBound(last) == last = 1
PlanTakesFile(last) == last = 1 /\ nfiles < maxfiles

\* line 142: the id appended to isource
SourceId_First(source_speaker) == speakers[lspeakers[1]]
SourceId(source_speaker) == speakers[source_speaker]

\* line 147: fn = dataset.filenames[i][:-len('.pt')]
StripExt(fn) == SubSeq(fn, 1, Len(fn) - 1)

\* lines 151-152: the target speaker of the next file, given the random draw
NextTarget_NoForce(draw) == lspeakers[draw]
NextTarget(draw) ==
    IF force_target_speaker # None THEN force_target_speaker ELSE lspeakers[draw]

\* line 163: one line of the list file
ListLine(fields) == fields[1] \o <<"\t">> \o <<fields[2]>> \o <<"\t">>
                        \o <<fields[3]>> \o <<"\n">>

Crash(e) == /\ pc' = "crashed"
            /\ err' = e

\* line 135: the loader gives the next batch, or the loop ends
PlanNextBatch ==
    /\ pc = "plan_for"
    /\ IF k >= NumBatches
         THEN /\ pc' = "write_list"
              /\ UNCHANGED <<isource, itarget, n>>
         ELSE /\ pc' = "plan_rec"
              /\ isource' = <<>>
              /\ itarget' = <<>>
              /\ n' = 0
    /\ UNCHANGED <<err, target_speaker, fnlist, itrafos, nfiles, k, audio, t_audio,
                   flist, flist_writes, calls, written, interrupted>>
    /\ UNCHANGED <<inputVars, synthVars>>

\* lines 137-153: one record of the batch
PlanRecord ==
    /\ pc = "plan_rec"
    /\ LET info == Batch(k)[n + 1]
           source_speaker == filename_split(filenames[info.i])
       IN  IF target_speaker \notin DOMAIN speakers
             THEN \* line 143: speakers[target_speaker] raises KeyError
                  /\ Crash("KeyError")
                  /\ isource' = Append(isource, SourceId(source_speaker))
                  /\ UNCHANGED <<itarget, fnlist, target_speaker, nfiles, n>>
             ELSE /\ isource' = Append(isource, SourceId(source_speaker))
                  /\ itarget' = Append(itarget, speakers[target_speaker])
                  /\ IF PlanTakesFile(info.last)
                       THEN /\ fnlist' = Append(fnlist,
                                   <<StripExt(filenames[info.i]), source_speaker,
                                     target_speaker>>)
                            /\ \E draw \in 1..Len(lspeakers) :
                                   target_speaker' = NextTarget(draw)
                            /\ nfiles' = nfiles + 1
                       ELSE UNCHANGED <<fnlist, target_speaker, nfiles>>
                  /\ n' = n + 1
                  /\ pc' = IF n + 1 >= Len(Batch(k)) THEN "plan_end" ELSE "plan_rec"
                  /\ err' = err
    /\ UNCHANGED <<itrafos, k, audio, t_audio, flist, flist_writes, calls, written,
                   interrupted>>
    /\ UNCHANGED <<inputVars, synthVars>>

\* lines 155-158: the batch's entry of the plan, and the max-files stop
PlanBatchEnd ==
    /\ pc = "plan_end"
    /\ itrafos' = Append(itrafos, <<isource, itarget>>)
    /\ IF nfiles >= maxfiles
         THEN pc' = "write_list" /\ k' = k
         ELSE pc' = "plan_for" /\ k' = k + 1
    /\ UNCHANGED <<err, target_speaker, fnlist, isource, itarget, nfiles, n, audio,
                   t_audio, flist, flist_writes, calls, written, interrupted>>
    /\ UNCHANGED <<inputVars, synthVars>>

\* lines 161-164 write the list; lines 178-182 reset the loop state
WriteList ==
    /\ pc = "write_list"
    /\ flist' = [f \in 1..Len(fnlist) |-> ListLine(fnlist[f])]
    /\ flist_writes' = flist_writes + 1
    /\ audio' = <<>>
    /\ nfiles' = 0
    /\ t_audio' = 0
    /\ k' = 0
    /\ n' = 0
    /\ pc' = "synth_for"
    /\ UNCHANGED <<err, target_speaker, fnlist, itrafos, isource, itarget, calls,
                   written, interrupted>>
    /\ UNCHANGED <<inputVars, synthVars>>

----------------------------------------------------------------------------
(* Synthesis loop, lines 176-250 *)

\* lines 216-220: the path of the audio file of a triple
OutPath(triple) ==
    LET fn == BaseName(triple[1])
        named == IF convert THEN fn \o <<"_to_">> \o <<triple[3]>> ELSE fn
    IN  <<"path_out", "/">> \o named \o <<".wav">>

\* line 216: the triple of the file being flushed (fnlist[nfiles], 0-based)
FlushTriple_First == fnlist[1]
FlushTriple == fnlist[nfiles + 1]

\* the for loop of line 210 moves on to record n + 1, or the batch is over
NextRecord ==
    IF n + 1 >= Len(Batch(k))
      THEN /\ pc' = "synth_for"
           /\ k' = k + 1
           /\ n' = n
      ELSE /\ pc' = "synth_rec"
           /\ k' = k
           /\ n' = n + 1

\* lines 185-209: next batch, plan entry, conversion and windowing
SynthNextBatch ==
    /\ pc = "synth_for"
    /\ IF k >= NumBatches \/ k >= Len(itrafos)
         THEN /\ pc' = "report"
              /\ UNCHANGED <<isource, itarget, n>>
         ELSE /\ isource' = itrafos[k + 1][1]
              /\ itarget' = itrafos[k + 1][2]
              /\ n' = 0
              /\ pc' = "synth_rec"
    /\ UNCHANGED <<err, target_speaker, fnlist, itrafos, nfiles, k, audio, t_audio,
                   flist, flist_writes, calls, written, interrupted>>
    /\ UNCHANGED <<inputVars, synthVars>>

\* lines 211-213: append the frame, look at the boundary flag
SynthRecord ==
    /\ pc = "synth_rec"
    /\ LET info == Batch(k)[n + 1]
       IN  /\ audio' = Append(audio, <<info.i, info.j>>)
           /\ IF info.last = 1
                THEN pc' = "flush" /\ UNCHANGED <<k, n>>
                ELSE NextRecord
    /\ UNCHANGED <<err, target_speaker, fnlist, itrafos, isource, itarget, nfiles,
                   t_audio, flist, flist_writes, calls, written, interrupted>>
    /\ UNCHANGED <<inputVars, synthVars>>

\* lines 216-225: look up the triple, build the path, call synthesize
SynthFlush ==
    /\ pc = "flush"
    /\ IF nfiles >= Len(fnlist)
         THEN \* line 216: fnlist[nfiles] raises IndexError
              /\ Crash("IndexError")
              /\ UNCHANGED calls
         ELSE /\ calls' = Append(calls,
                     [filename |-> OutPath(FlushTriple),
                      frames   |-> audio,
                      triple   |-> FlushTriple,
                      i        |-> Batch(k)[n + 1].i,
                      listed   |-> flist_writes])
              /\ pc' = "in_synthesize"
              /\ err' = err
    /\ UNCHANGED <<target_speaker, fnlist, itrafos, isource, itarget, nfiles, k, n,
                   audio, t_audio, flist, flist_writes, written, interrupted>>
    /\ UNCHANGED <<inputVars, synthVars>>

\* lines 13-32, as seen by the loop: the audio file is written
SynthWrite ==
    /\ pc = "in_synthesize"
    /\ written' = Append(written, calls[Len(calls)].filename)
    /\ pc' = "reset"
    /\ UNCHANGED <<err, target_speaker, fnlist, itrafos, isource, itarget, nfiles,
                   k, n, audio, t_audio, flist, flist_writes, calls, interrupted>>
    /\ UNCHANGED <<inputVars, synthVars>>

\* lines 228-234: count the audio, clear the accumulator, count the file
SynthReset_NoCount ==
    /\ pc = "reset"
    /\ t_audio' = t_audio + (Len(audio) - 1) * ArgStride + ArgLChunk
    /\ audio' = <<>>
    /\ nfiles' = nfiles
    /\ NextRecord
    /\ UNCHANGED <<err, target_speaker, fnlist, itrafos, isource, itarget,
                   flist, flist_writes, calls, written, interrupted>>
    /\ UNCHANGED <<inputVars, synthVars>>

SynthReset_KeepAudio ==
    /\ pc = "reset"
    /\ t_audio' = t_audio + (Len(audio) - 1) * ArgStride + ArgLChunk
    /\ audio' = audio
    /\ nfiles' = nfiles + 1
    /\ IF nfiles + 1 >= maxfiles
         THEN /\ pc' = "synth_for"
              /\ k' = k + 1
              /\ n' = n
         ELSE NextRecord
    /\ UNCHANGED <<err, target_speaker, fnlist, itrafos, isource, itarget,
                   flist, flist_writes, calls, written, interrupted>>
    /\ UNCHANGED <<inputVars, synthVars>>

SynthReset ==
    /\ pc = "reset"
    /\ t_audio' = t_audio + (Len(audio) - 1) * ArgStride + ArgLChunk
    /\ audio' = <<>>
    /\ nfiles' = nfiles + 1
    /\ IF nfiles + 1 >= maxfiles
         THEN \* line 234 leaves the for loop of line 210
              /\ pc' = "synth_for"
              /\ k' = k + 1
              /\ n' = n
         ELSE NextRecord
    /\ UNCHANGED <<err, target_speaker, fnlist, itrafos, isource, itarget,
                   flist, flist_writes, calls, written, interrupted>>
    /\ UNCHANGED <<inputVars, synthVars>>

\* the positions inside the try block of lines 183-238
InLoop == pc \in {"synth_for", "synth_rec", "flush", "in_synthesize", "reset"}

\* lines 238-239: a KeyboardInterrupt raised anywhere in the try block
Interrupt_Continue ==
    /\ InLoop
    /\ ~interrupted
    /\ interrupted' = TRUE
    /\ UNCHANGED <<pc, err, target_speaker, fnlist, itrafos, isource, itarget, nfiles,
                   k, n, audio, t_audio, flist, flist_writes, calls, written>>
    /\ UNCHANGED <<inputVars, synthVars>>

\* An interrupt that cuts synthesize short may or may not leave the file of the
\* call in progress on disk (line 31).
Interrupt ==
    /\ InLoop
    /\ interrupted' = TRUE
    /\ pc' = "report"
    /\ IF pc = "in_synthesize"
         THEN written' \in {written, Append(written, calls[Len(calls)].filename)}
         ELSE written' = written
    /\ UNCHANGED <<err, target_speaker, fnlist, itrafos, isource, itarget, nfiles,
                   k, n, audio, t_audio, flist, flist_writes, calls>>
    /\ UNCHANGED <<inputVars, synthVars>>

\* lines 244-256: the time report divides by t_audio
Report ==
    /\ pc = "report"
    /\ IF t_audio = 0
         THEN Crash("ZeroDivisionError")
         ELSE pc' = "done" /\ err' = err
    /\ UNCHANGED <<target_speaker, fnlist, itrafos, isource, itarget, nfiles,
                   k, n, audio, t_audio, flist, flist_writes, calls, written,
                   interrupted>>
    /\ UNCHANGED <<inputVars, synthVars>>

----------------------------------------------------------------------------
(* The run of the script *)

Init ==
    /\ \E S \in SUBSET (1..Len(PathUniverse)) : filenames = Pick(S, 1)
    /\ nframes \in [1..Len(filenames) -> 1..MaxFrames]
    /\ sbatch \in 1..MaxBatch
    /\ maxfiles \in 0..MaxMaxfiles
    /\ force_target_speaker \in {None} \cup DOMAIN speakers
    /\ convert \in BOOLEAN
    /\ pc = "plan_for"
    /\ err = ""
    /\ target_speaker = force_target_speaker    \* lines 130-131
    /\ fnlist = <<>>
    /\ itrafos = <<>>
    /\ isource = <<>>
    /\ itarget = <<>>
    /\ nfiles = 0
    /\ k = 0
    /\ n = 0
    /\ audio = <<>>
    /\ t_audio = 0
    /\ flist = <<>>
    /\ flist_writes = 0
    /\ calls = <<>>
    /\ written = <<>>
    /\ interrupted = FALSE
    /\ spc = "idle"
    /\ frames = <<>>
    /\ stride = 0
    /\ deemph = <<0, 1>>
    /\ normalize = FALSE
    /\ y_stream = <<>>
    /\ y = <<>>
    /\ wav = <<>>
    /\ serr = ""
    /\ dpc = "idle"
    /\ dalpha = <<0, 1>>
    /\ dx0 = <<>>
    /\ dx = <<>>
    /\ dy = <<>>
    /\ derr = ""

Next ==
    \/ PlanNextBatch
    \/ PlanRecord
    \/ PlanBatchEnd
    \/ WriteList
    \/ SynthNextBatch
    \/ SynthRecord
    \/ SynthFlush
    \/ SynthWrite
    \/ SynthReset
    \/ Interrupt
    \/ Report

Spec == Init /\ [][Next]_vars

Terminated == pc \in {"done", "crashed"}

----------------------------------------------------------------------------
(* Exact rational arithmetic on pairs <<numerator, denominator>> *)

Abs(a) == IF a < 0 THEN -a ELSE a

RECURSIVE GCD(_, _)
GCD(a, b) == IF b = 0 THEN a ELSE GCD(b, a % b)

\* the rational a/b (b # 0) in lowest terms with a positive denominator
Rat(a, b) ==
    LET g == GCD(Abs(a), Abs(b))
        sgn == IF b < 0 THEN -1 ELSE 1
    IN  <<sgn * (a \div g), sgn * (b \div g)>>

Zero == <<0, 1>>
\* common factors are divided out before multiplying, to keep the products small
RAdd(p, q) ==
    LET g == GCD(p[2], q[2])
    IN  Rat(p[1] * (q[2] \div g) + q[1] * (p[2] \div g), (p[2] \div g) * q[2])
RSub(p, q) ==
    LET g == GCD(p[2], q[2])
    IN  Rat(p[1] * (q[2] \div g) - q[1] * (p[2] \div g), (p[2] \div g) * q[2])
RMul(p, q) ==
    LET g1 == GCD(Abs(p[1]), q[2])
        g2 == GCD(Abs(q[1]), p[2])
    IN  Rat((p[1] \div g1) * (q[1] \div g2), (p[2] \div g2) * (q[2] \div g1))
RDiv(p, q) == RMul(p, IF q[1] < 0 THEN <<-q[2], -q[1]>> ELSE <<q[2], q[1]>>)
RLess(p, q) ==
    LET g == GCD(p[2], q[2])
    IN  p[1] * (q[2] \div g) < q[1] * (p[2] \div g)
RLeq(p, q) ==
    LET g == GCD(p[2], q[2])
    IN  p[1] * (q[2] \div g) <= q[1] * (p[2] \div g)
RAbs(p) == <<Abs(p[1]), p[2]>>
RNeg(p) == <<-p[1], p[2]>>

\* a buffer with every element evaluated (an array, not a rule to compute one)
Array(f) == f \o <<>>

RECURSIVE RSum(_, _)
RSum(x, m) == IF m = 0 THEN Zero ELSE RAdd(RSum(x, m - 1), x[m])

\* the largest of the values of a non-empty sequence of rationals
RMaxOf(x) == CHOOSE v \in {x[p] : p \in 1..Len(x)} :
                 \A q \in 1..Len(x) : RLeq(x[q], v)


----------------------------------------------------------------------------
(* deemphasis, lines 37-46 *)

\* lines 44-45: y[m] = x[m] + alpha * y[m - 1] for m = 1 .. len(x) - 1, on a copy
RECURSIVE DeemphLoop_Feedforward(_, _, _, _)
DeemphLoop_Feedforward(x, alpha, m, out) ==
    IF m > Len(x) THEN out
    ELSE DeemphLoop_Feedforward(x, alpha, m + 1,
                    Array([out EXCEPT ![m] = RAdd(x[m], RMul(alpha, x[m - 1]))]))

RECURSIVE DeemphLoop(_, _, _, _)
DeemphLoop(x, alpha, m, out) ==
    IF m > Len(x) THEN out
    ELSE DeemphLoop(x, alpha, m + 1,
                    Array([out EXCEPT ![m] = RAdd(x[m], RMul(alpha, out[m - 1]))]))

deemphasis(x, alpha) ==
    IF alpha = Zero \/ alpha = <<1, 1>> THEN x
    ELSE DeemphLoop(x, alpha, 2, x)

\* line 40: assert 0 <= alpha <= 1
DeemphError(alpha) ==
    IF RLeq(Zero, alpha) /\ RLeq(alpha, <<1, 1>>) THEN "" ELSE "AssertionError"

\* lines 43-45 assign to the copy y only: the caller's array after the call
InputAfter(x, alpha) == x

----------------------------------------------------------------------------
(* synthesize, lines 13-32 *)

\* the default peak target of line 13: ymax = 0.98
ymax == <<49, 50>>

\* line 15: frames[0] of an empty list raises IndexError
SynthError_EmptyInput(fr) == IF Len(fr) = 0 THEN "EmptyInput" ELSE ""
SynthError(fr) == IF Len(fr) = 0 THEN "IndexError" ELSE ""

\* line 15: the length of the zero buffer
BufferLen_OneMore(fr, st) == Len(fr) * st + Len(fr[1])
BufferLen(fr, st) == (Len(fr) - 1) * st + Len(fr[1])

\* line 17: y[i * stride : i * stride + len(x)] += x  (i counts from 0)
AddFrame_Overwrite(buf, i, x, st) ==
    Array([p \in 1..Len(buf) |->
        IF i * st < p /\ p <= i * st + Len(x) THEN x[p - i * st] ELSE buf[p]])
AddFrame(buf, i, x, st) ==
    Array([p \in 1..Len(buf) |->
        IF i * st < p /\ p <= i * st + Len(x)
          THEN RAdd(buf[p], x[p - i * st])
          ELSE buf[p]])

\* lines 16-17: the loop over the frames, from frame i on
RECURSIVE AddFrames(_, _, _, _)
AddFrames(buf, fr, i, st) ==
    IF i >= Len(fr) THEN buf
    ELSE AddFrames(AddFrame(buf, i, fr[i + 1], st), fr, i + 1, st)

\* lines 15-17: the stream "generated" before de-emphasis and normalization
OverlapAdd(fr, st) ==
    AddFrames(Array([p \in 1..BufferLen(fr, st) |-> Zero]), fr, 0, st)

\* lines 24-27: remove the mean, scale the peak to ymax
Normalized_KeepMean(buf) ==
    LET mx == RMaxOf(Array([p \in 1..Len(buf) |-> RAbs(buf[p])]))
    IN  IF RLess(Zero, mx)
          THEN Array([p \in 1..Len(buf) |-> RMul(buf[p], RDiv(ymax, mx))])
          ELSE buf

Normalized(buf) ==
    LET mean == RDiv(RSum(buf, Len(buf)), <<Len(buf), 1>>)
        c == Array([p \in 1..Len(buf) |-> RSub(buf[p], mean)])
        mx == RMaxOf(Array([p \in 1..Len(c) |-> RAbs(c[p])]))
    IN  IF RLess(Zero, mx)
          THEN Array([p \in 1..Len(c) |-> RMul(c[p], RDiv(ymax, mx))])
          ELSE c

\* line 29: np.clip(y, -ymax, ymax)
Clipped_UpperOnly(buf) ==
    Array([p \in 1..Len(buf) |-> IF RLess(ymax, buf[p]) THEN ymax ELSE buf[p]])

Clipped(buf) ==
    Array([p \in 1..Len(buf) |->
        IF RLess(buf[p], RNeg(ymax)) THEN RNeg(ymax)
        ELSE IF RLess(ymax, buf[p]) THEN ymax ELSE buf[p]])

\* <<floor(r * m / d), (r * m) % d>> for 0 <= r < d and m >= 0, by halving m,
\* so that no intermediate product leaves the range of the integers
RECURSIVE MulDiv(_, _, _)
MulDiv(r, m, d) ==
    IF m = 0 THEN <<0, 0>>
    ELSE LET h == MulDiv(r, m \div 2, d)
             rem == 2 * h[2] + (IF m % 2 = 1 THEN r ELSE 0)
         IN  <<2 * h[1] + rem \div d, rem % d>>

\* trunc(p * m) for a rational p and an integer m >= 0
TruncTimes(p, m) ==
    LET a == Abs(p[1])
        v == (a \div p[2]) * m + MulDiv(a % p[2], m, p[2])[1]
    IN  IF p[1] >= 0 THEN v ELSE -v

\* line 31: np.array(y * 32767, dtype=np.int16)
Quantized(buf) == [p \in 1..Len(buf) |-> TruncTimes(buf[p], 32767)]

\* lines 19-29: de-emphasis and normalization of the generated stream
Finish(y0, de, norm) ==
    LET y1 == IF RLess(Zero, de) THEN deemphasis(y0, de) ELSE y0
    IN  IF norm THEN Normalized(y1) ELSE Clipped(y1)

\* lines 15-32: the waveform synthesize returns
synthesize(fr, st, de, norm) == Finish(OverlapAdd(fr, st), de, norm)

\* the sample values a frame is drawn from
Samples == {<<-1, 1>>, Zero, <<1, 2>>}
Alphas == {Zero, <<1, 2>>}

InitSynth ==
    /\ \E N \in 0..MaxN, L \in 1..MaxL : frames \in [1..N -> [1..L -> Samples]]
    /\ stride \in 0..MaxStride
    /\ deemph = Zero
    /\ normalize = FALSE
    /\ spc = "call"
    /\ y_stream = <<>>
    /\ y = <<>>
    /\ wav = <<>>
    /\ serr = ""
    /\ dpc = "idle"
    /\ dalpha = <<0, 1>>
    /\ dx0 = <<>>
    /\ dx = <<>>
    /\ dy = <<>>
    /\ derr = ""
    /\ filenames = <<>>
    /\ nframes = <<>>
    /\ sbatch = 1
    /\ maxfiles = 0
    /\ force_target_speaker = None
    /\ convert = FALSE
    /\ pc = "idle"
    /\ err = ""
    /\ target_speaker = None
    /\ fnlist = <<>>
    /\ itrafos = <<>>
    /\ isource = <<>>
    /\ itarget = <<>>
    /\ nfiles = 0
    /\ k = 0
    /\ n = 0
    /\ audio = <<>>
    /\ t_audio = 0
    /\ flist = <<>>
    /\ flist_writes = 0
    /\ calls = <<>>
    /\ written = <<>>
    /\ interrupted = FALSE

\* one call synthesize(frames, filename, stride, deemph=deemph, normalize=normalize)
CallSynthesize ==
    /\ spc = "call"
    /\ \E de \in Alphas, norm \in BOOLEAN :
          /\ deemph' = de
          /\ normalize' = norm
          /\ IF SynthError(frames) # ""
               THEN \* line 15 raises: nothing is computed, nothing is written
                    /\ spc' = "raised"
                    /\ serr' = SynthError(frames)
                    /\ UNCHANGED <<y_stream, y, wav>>
               ELSE /\ y_stream' = OverlapAdd(frames, stride)
                    /\ y' = Finish(y_stream', de, norm)
                    /\ wav' = Quantized(y')
                    /\ spc' = "returned"
                    /\ serr' = ""
    /\ UNCHANGED <<frames, stride, dpc, dalpha, dx0, dx, dy, derr>>
    /\ UNCHANGED <<inputVars, progVars>>

NextSynth == CallSynthesize

\* the script at rest, while a function is called on its own
ScriptIdle ==
    /\ filenames = <<>>
    /\ nframes = <<>>
    /\ sbatch = 1
    /\ maxfiles = 0
    /\ force_target_speaker = None
    /\ convert = FALSE
    /\ pc = "idle"
    /\ err = ""
    /\ target_speaker = None
    /\ fnlist = <<>>
    /\ itrafos = <<>>
    /\ isource = <<>>
    /\ itarget = <<>>
    /\ nfiles = 0
    /\ k = 0
    /\ n = 0
    /\ audio = <<>>
    /\ t_audio = 0
    /\ flist = <<>>
    /\ flist_writes = 0
    /\ calls = <<>>
    /\ written = <<>>
    /\ interrupted = FALSE

\* the coefficients deemphasis is called with (3/2 is out of range)
DAlphas == {Zero, <<1, 4>>, <<1, 2>>, <<1, 1>>, <<3, 2>>}

InitDeemph ==
    /\ \E len \in 0..MaxX : dx0 \in [1..len -> Samples]
    /\ dalpha \in DAlphas
    /\ dx = dx0
    /\ dy = <<>>
    /\ derr = ""
    /\ dpc = "call"
    /\ spc = "idle"
    /\ frames = <<>>
    /\ stride = 0
    /\ deemph = Zero
    /\ normalize = FALSE
    /\ y_stream = <<>>
    /\ y = <<>>
    /\ wav = <<>>
    /\ serr = ""
    /\ ScriptIdle

\* one call deemphasis(x, alpha)
CallDeemphasis ==
    /\ dpc = "call"
    /\ IF DeemphError(dalpha) # ""
         THEN /\ dpc' = "raised"
              /\ derr' = DeemphError(dalpha)
              /\ UNCHANGED <<dx, dy>>
         ELSE /\ dpc' = "returned"
              /\ dy' = deemphasis(dx, dalpha)
              /\ dx' = InputAfter(dx, dalpha)
              /\ derr' = ""
    /\ UNCHANGED <<dalpha, dx0, spc, frames, stride, deemph, normalize, y_stream, y,
                   wav, serr>>
    /\ UNCHANGED <<inputVars, progVars>>

NextDeemph == CallDeemphasis

SpecDeemph == InitDeemph /\ [][NextDeemph]_vars

SpecSynth == InitSynth /\ [][NextSynth]_vars

----------------------------------------------------------------------------
(* Properties of the run of the script (Spec) *)

\* the synthesis loop has started (the list file is written just before it)
InSynthesis == flist_writes >= 1

\* the files whose last frame the stream carries, in stream order
LastFiles ==
    LET lasts == SelectSeq(Stream, LAMBDA r : r.last = 1)
    IN  [c \in 1..Len(lasts) |-> lasts[c].i]

\* C1: the synthesis loop never calls synthesize more often than maxfiles, and
\* once the file counter has reached maxfiles no further record is flushed:
\* neither the rest of the batch nor a later batch.
C1_MaxFilesBound ==
    /\ Len(calls) <= maxfiles
    /\ Len(written) <= maxfiles
    /\ (InSynthesis /\ nfiles >= maxfiles) => pc \notin {"in_synthesize", "reset"}

\* C1 witness: the run ended with maxfiles files flushed, the bound having been
\* reached inside a batch that still held a last-frame record, with a later
\* batch left unread.
C1_Witness ==
    /\ pc = "done"
    /\ ~interrupted
    /\ maxfiles >= 1
    /\ Len(written) = maxfiles
    /\ k >= 1
    /\ k < NumBatches
    /\ \E p \in (n + 2)..Len(Batch(k - 1)) : Batch(k - 1)[p].last = 1

\* C2: the c-th flush is the flush of the file whose last frame is the c-th
\* last-frame record of the stream, it uses the c-th triple of fnlist, and
\* that triple names the file whose last frame was just observed.
C2_FlushOrder ==
    \A c \in 1..Len(calls) :
        /\ c <= Len(fnlist)
        /\ calls[c].triple = fnlist[c]
        /\ calls[c].i = LastFiles[c]
        /\ calls[c].triple[1] = StripExt(filenames[calls[c].i])

\* C2 witness: three files were flushed.
C2_Witness == Len(calls) = 3 /\ Len(written) = 3

\* C3 (as claimed): after an interrupt of the synthesis loop the time report
\* completes and the script ends normally.
C3_InterruptThenReport == interrupted => pc \in {"report", "done"}

\* C4: from the interrupt on, synthesize is not called and no audio file is
\* written: the frames held in the accumulator stay there.
\* The only file an interrupt can leave behind is that of a call of synthesize
\* that was already in progress.
C4_NoFlushAfterInterrupt ==
    [][/\ (interrupted \/ interrupted') => (calls' = calls /\ audio' = audio)
       /\ interrupted => written' = written
       /\ written' # written
            => /\ calls # <<>>
               /\ Len(written) = Len(calls) - 1
               /\ written' = Append(written, calls[Len(calls)].filename)]_vars

\* C4 witness: the run was interrupted after one file was written, with frames
\* of the next file in the accumulator, and has ended.
C4_Witness ==
    /\ interrupted
    /\ Terminated
    /\ Len(written) >= 1
    /\ audio # <<>>
    /\ Len(calls) = Len(written)

\* C5: the list file is written at most once, with one line per triple, before
\* the first call of synthesize; when a run that was not interrupted has
\* ended, the list has as many lines as audio files were written.
C5_ListBeforeSynthesis ==
    /\ flist_writes <= 1
    /\ \A c \in 1..Len(calls) : calls[c].listed = 1
    /\ InSynthesis => flist = [f \in 1..Len(fnlist) |-> ListLine(fnlist[f])]
    /\ (Terminated /\ ~interrupted) => Len(flist) = Len(written)

\* C5 witness: an uninterrupted run ended with two files written and listed,
\* the stream holding a third file.
C5_Witness ==
    /\ pc = "done"
    /\ ~interrupted
    /\ Len(flist) = 2
    /\ Len(written) = 2
    /\ Len(filenames) = 3

\* C6: with a forced target speaker every triple has it as its target.
C6_ForcedTarget ==
    force_target_speaker # None
        => \A f \in 1..Len(fnlist) : fnlist[f][3] = force_target_speaker

\* C6 witness: a forced target and three triples.
C6_Witness == force_target_speaker # None /\ Len(fnlist) = 3

\* C7 (as claimed): without a forced target speaker the target-id lookup
\* succeeds for every record and every triple's target is a speaker of the table.
C7_TargetFromTable ==
    force_target_speaker = None
        => /\ err # "KeyError"
           /\ \A f \in 1..Len(fnlist) : fnlist[f][3] \in DOMAIN speakers

\* C10 (as claimed): each flush writes <path_out>/<base>.wav, or
\* <path_out>/<base>_to_<target>.wav under conversion, and two distinct source
\* files never get the same path.
C10_OnePathPerFile ==
    /\ \A c \in 1..Len(calls) :
          calls[c].filename =
              <<"path_out", "/">> \o BaseName(StripExt(filenames[calls[c].i]))
                  \o (IF convert THEN <<"_to_", fnlist[c][3]>> ELSE <<>>)
                  \o <<".wav">>
    /\ \A c, d \in 1..Len(calls) :
          calls[c].i # calls[d].i => calls[c].filename # calls[d].filename

\* the frames the dataset emits for file i, in emission order
FileFrames(i) == [j \in 1..nframes[i] |-> <<i, j - 1>>]

\* C16: every call of synthesize gets exactly the frames of the file being
\* flushed, in emission order; the accumulator is not empty at a flush, holds
\* only the earlier frames of the current file while the file is being read,
\* and is empty when the loop goes on after a flush.
C16_FlushFrames ==
    /\ [](/\ \A c \in 1..Len(calls) :
                /\ calls[c].frames # <<>>
                /\ calls[c].frames = FileFrames(calls[c].i)
          /\ pc \in {"flush", "in_synthesize", "reset"} => audio # <<>>
          /\ pc = "synth_rec" =>
                LET info == Batch(k)[n + 1]
                IN  audio = [j \in 1..info.j |-> <<info.i, j - 1>>])
    /\ [][(pc = "reset" /\ pc' \in {"synth_for", "synth_rec"}) => audio' = <<>>]_vars

\* C16 witness: a file of two frames split over two batches was flushed after
\* another file, and the loop went on with an empty accumulator.
C16_Witness ==
    /\ Len(calls) = 2
    /\ Len(calls[2].frames) = 2
    /\ sbatch = 2
    /\ nframes[1] = 1
    /\ pc = "synth_rec"
    /\ audio = <<>>

\* C17: every record of a file that has a triple got the id of the triple's
\* source speaker and the id of the triple's target speaker, in the finished
\* entries of the plan and in the entry being built.
C17_RecordIds ==
    /\ \A b \in 1..Len(itrafos) : \A p \in 1..Len(itrafos[b][1]) :
          LET r == Batch(b - 1)[p]
          IN  r.i <= Len(fnlist) =>
                 /\ fnlist[r.i][1] = StripExt(filenames[r.i])
                 /\ itrafos[b][1][p] = speakers[fnlist[r.i][2]]
                 /\ itrafos[b][2][p] = speakers[fnlist[r.i][3]]
    /\ pc \in {"plan_rec", "plan_end"} =>
          \A p \in 1..Len(itarget) :
             LET r == Batch(k)[p]
             IN  r.i <= Len(fnlist) =>
                    /\ isource[p] = speakers[fnlist[r.i][2]]
                    /\ itarget[p] = speakers[fnlist[r.i][3]]

\* C17 witness: the plan is built; a batch holds records of two files with
\* different source speakers, both with a triple.
C17_Witness ==
    /\ InSynthesis
    /\ Len(fnlist) >= 2
    /\ \E b \in 1..Len(itrafos) : \E p, q \in 1..Len(itrafos[b][1]) :
          /\ Batch(b - 1)[p].i # Batch(b - 1)[q].i
          /\ Batch(b - 1)[q].i <= Len(fnlist)
          /\ Batch(b - 1)[p].i <= Len(fnlist)
          /\ itrafos[b][1][p] # itrafos[b][1][q]

\* the number of last-frame records in the batches 0 .. b
LastsThrough(b) ==
    Cardinality({q \in 1..Min((b + 1) * sbatch, Len(Stream)) : Stream[q].last = 1})

\* the number of batches up to and including the one in which the file counter
\* reaches maxfiles: none when maxfiles is 0, all when it is never reached
ExpectedEntries ==
    IF maxfiles = 0 THEN 0
    ELSE LET reach == {b \in 0..(NumBatches - 1) : LastsThrough(b) >= maxfiles}
         IN  IF reach = {} THEN NumBatches
             ELSE (CHOOSE b \in reach : \A c \in reach : b <= c) + 1

\* every entry of the plan has one pair of ids per record of its batch
EntriesMatchBatches ==
    \A b \in 1..Len(itrafos) :
        /\ Len(itrafos[b][1]) = Len(Batch(b - 1))
        /\ Len(itrafos[b][2]) = Len(Batch(b - 1))

\* C18 (as claimed): the finished plan holds one entry per batch up to and
\* including the batch in which the counter reaches maxfiles and none after
\* it, one pair of ids per record, and at most maxfiles triples.
C18_PlanStops ==
    InSynthesis =>
        /\ Len(itrafos) = ExpectedEntries
        /\ EntriesMatchBatches
        /\ Len(fnlist) <= maxfiles

\* C19 (as claimed): whenever the synthesis loop observes a last-frame record,
\* fnlist has a triple at index nfiles.
C19_TripleExists ==
    /\ pc = "flush" => nfiles < Len(fnlist)
    /\ err # "IndexError"

----------------------------------------------------------------------------
(* Properties of synthesize (SpecSynth) *)

\* C8: the waveform synthesize returns for N frames of length L and stride S
\* has length (N - 1) * S + L.
C8_WaveformLength ==
    spc = "returned"
        => /\ Len(y) = (Len(frames) - 1) * stride + Len(frames[1])
           /\ Len(wav) = Len(y)

\* C8 witness: two overlapping frames of length 2 were synthesized.
C8_Witness ==
    spc = "returned" /\ Len(frames) = 2 /\ Len(frames[1]) = 2 /\ stride = 1

\* the sum of the samples the frames i .. N-1 put at position p (from 1)
RECURSIVE SumAt(_, _, _, _)
SumAt(fr, st, p, i) ==
    IF i >= Len(fr) THEN Zero
    ELSE LET q == p - 1 - i * st
         IN  RAdd(IF 0 <= q /\ q < Len(fr[i + 1]) THEN fr[i + 1][q + 1] ELSE Zero,
                  SumAt(fr, st, p, i + 1))

RECURSIVE Concat(_, _)
Concat(fr, i) == IF i > Len(fr) THEN <<>> ELSE fr[i] \o Concat(fr, i + 1)

IsZeroFrame(x) == \A p \in 1..Len(x) : x[p] = Zero

\* C9: before de-emphasis and normalization, sample p of the buffer is the sum
\* of every frame's sample at p - i*S; a single non-zero frame i appears at
\* offsets i*S .. i*S+L-1 with zeros elsewhere; with S = L the buffer is the
\* concatenation of the frames.
C9_OverlapAdd ==
    spc = "returned" =>
        /\ \A p \in 1..Len(y_stream) : y_stream[p] = SumAt(frames, stride, p, 0)
        /\ \A i \in 0..(Len(frames) - 1) :
              (\A j \in 0..(Len(frames) - 1) : j # i => IsZeroFrame(frames[j + 1]))
                  => \A p \in 1..Len(y_stream) :
                        y_stream[p] =
                            IF i * stride < p /\ p <= i * stride + Len(frames[i + 1])
                              THEN frames[i + 1][p - i * stride]
                              ELSE Zero
        /\ stride = Len(frames[1]) => y_stream = Concat(frames, 1)

\* C9 witness: two non-zero frames of length 2 overlapped in one sample.
C9_Witness ==
    /\ spc = "returned"
    /\ Len(frames) = 2
    /\ Len(frames[1]) = 2
    /\ stride = 1
    /\ frames[1][2] = <<1, 2>>
    /\ frames[2][1] = <<1, 2>>
    /\ y_stream[2] = <<1, 1>>

----------------------------------------------------------------------------
\* the buffer synthesize holds after line 21, before lines 23-29
BeforeNormalize ==
    IF RLess(Zero, deemph) THEN deemphasis(y_stream, deemph) ELSE y_stream

\* C12: with normalize = false no returned sample exceeds ymax in magnitude, a
\* sample that was within [-ymax, ymax] is returned as it was and one outside
\* is set to the nearer end: nothing is rescaled and no mean is removed.
C12_ClipMode ==
    (spc = "returned" /\ ~normalize) =>
        /\ Len(y) = Len(BeforeNormalize)
        /\ \A p \in 1..Len(y) :
              LET v == BeforeNormalize[p]
              IN  /\ RLeq(RAbs(y[p]), ymax)
                  /\ RLeq(RAbs(v), ymax) => y[p] = v
                  /\ RLess(ymax, v) => y[p] = ymax
                  /\ RLess(v, RNeg(ymax)) => y[p] = RNeg(ymax)

\* C12 witness: one sample was clipped at -ymax, one at ymax, and one sample
\* in range with a non-zero buffer mean was returned unchanged.
C12_Witness ==
    /\ spc = "returned"
    /\ ~normalize
    /\ deemph = Zero
    /\ y_stream = << <<-1, 1>>, <<1, 1>>, <<1, 2>> >>
    /\ y = << <<-49, 50>>, <<49, 50>>, <<1, 2>> >>

\* the largest magnitude of a non-empty buffer
Peak(buf) == RMaxOf(Array([p \in 1..Len(buf) |-> RAbs(buf[p])]))

\* C13: with normalize = true the returned buffer is the input minus its mean,
\* scaled by ymax / peak when the peak of that difference is positive (its
\* peak is then ymax and its mean 0); when the peak is 0 nothing is scaled and
\* the returned buffer is all zero.
C13_NormalizeMode ==
    (spc = "returned" /\ normalize) =>
        LET b == BeforeNormalize
            mean == RDiv(RSum(b, Len(b)), <<Len(b), 1>>)
            c == Array([p \in 1..Len(b) |-> RSub(b[p], mean)])
        IN  /\ Len(y) = Len(b)
            /\ IF \A p \in 1..Len(c) : c[p] = Zero
                 THEN \A p \in 1..Len(y) : y[p] = Zero
                 ELSE /\ Peak(y) = ymax
                      /\ RSum(y, Len(y)) = Zero
                      /\ \A p \in 1..Len(y) :
                            RMul(y[p], Peak(c)) = RMul(c[p], ymax)

\* C13 witness: a buffer with a non-zero mean was centred and scaled.
C13_Witness ==
    /\ spc = "returned"
    /\ normalize
    /\ deemph = Zero
    /\ y_stream = << <<1, 2>>, <<-1, 1>> >>
    /\ y = << <<49, 50>>, <<-49, 50>> >>

\* C13 second case: a constant, non-silent buffer has peak 0 after the mean is
\* removed and comes back all zero.
C13_WitnessSilent ==
    /\ spc = "returned"
    /\ normalize
    /\ y_stream = << <<1, 2>>, <<1, 2>> >>
    /\ y = << Zero, Zero >>

----------------------------------------------------------------------------
(* Properties of deemphasis (SpecDeemph) *)

\* C11: for alpha in [0, 1], deemphasis returns x itself when alpha is 0 or 1,
\* and otherwise y with y[0] = x[0] and y[m] = x[m] + alpha * y[m-1]; the
\* array passed in is left as it was.
C11_Deemphasis ==
    (dpc = "returned") =>
        /\ dx = dx0
        /\ Len(dy) = Len(dx0)
        /\ IF dalpha = Zero \/ dalpha = <<1, 1>>
             THEN dy = dx0
             ELSE /\ Len(dx0) >= 1 => dy[1] = dx0[1]
                  /\ \A m \in 2..Len(dx0) :
                        dy[m] = RAdd(dx0[m], RMul(dalpha, dy[m - 1]))

\* C11 witness: three samples were filtered with alpha = 1/2 and the third
\* output carries the feedback of the first input.
C11_Witness ==
    /\ dpc = "returned"
    /\ dalpha = <<1, 2>>
    /\ dx0 = << <<-1, 1>>, <<1, 2>>, <<1, 2>> >>
    /\ dy = << <<-1, 1>>, Zero, <<1, 2>> >>

============================================================================
